---- MODULE Spec2Model ----
(***************************************************************************)
(* Model of the monitoring / A-B testing / rollback core of                *)
(* src/scripts/model_monitoring.py.                                        *)
(*                                                                         *)
(* Scores (roc_auc, accuracy, ...) are fixed-point numbers in thousandths: *)
(* 800 stands for 0.80.  Fractions the code computes by a float division   *)
(* are kept exact as a record [num, den] and compared by cross             *)
(* multiplication, so a comparison with a threshold is the comparison of   *)
(* the exact rationals; the rounding of a float division whose exact       *)
(* value lies on a threshold is not represented.                           *)
(*                                                                         *)
(* Every call sets `last`, so a step with last'.op = f is a call of f.     *)
(***************************************************************************)
EXTENDS Integers, Sequences, FiniteSets, TLC

VARIABLES
    config,            \* AutomatedRollbackManager.config (fixed at construction)
    prod,              \* object stored under models/production_model.pkl
    rollback_history,  \* AutomatedRollbackManager.rollback_history
    rollback_counter,  \* ROLLBACK_COUNTER (model_rollbacks_total)
    alerts,            \* alerts sent by _send_rollback_alert
    now,               \* last value read from datetime.now()
    engine_state,      \* Healthy / Flagged / RolledBack, as observed on the calls
    last,              \* the last call on the engine: operation, outcome, result
    ab_args,           \* arguments of analyze_ab_test: <<model_a_metrics, model_b_metrics>>
    ab_result,         \* << >> before analyze_ab_test ran, <<results>> after
    perf_args,         \* arguments of check_performance_degradation:
                       \* <<current_performance, baseline_performance, threshold>>
    perf_result,       \* << >> before check_performance_degradation ran, <<bool>> after
    performance_history, \* ModelPerformanceMonitor.performance_history
    mon_last,          \* the last call on the monitor: operation and outcome
    threads,           \* concurrent calls: per thread its operation, position
                       \* and the timestamp it has read
    detector,          \* the DataDriftDetector: reference_data, feature_names,
                       \* reference_stats once constructed
    drift_gauge,       \* DATA_DRIFT_GAUGE (data_drift_score), per feature label
    report_ids,        \* identities of the drift_results mappings created so far
    drift_last,        \* the last call on the detector: arguments, outcome, report
    trainer,           \* the ModelTrainer: models, best_model, best_model_name,
                       \* best_score, best_run_id, experiment_id
    mlflow_runs,       \* number of runs mlflow.start_run has opened
    train_last,        \* the last call on the trainer: outcome, results, error log
    pred_detector,     \* the PredictionDriftDetector: reference_predictions, reference_mean
    pred_gauge,        \* PREDICTION_DRIFT_GAUGE as a fraction, << >> while unset
    pred_last,         \* the last call on the prediction detector: threshold, result
    api_env,           \* what the serving process finds: MONITORING_AVAILABLE, the
                       \* reference data file and its Churn column
    started,           \* load_models has run (lifespan startup)
    models,            \* inference_api.models: names of the loaded models, in order
    preprocessor,      \* inference_api.preprocessor is loaded
    ab_test_config,    \* inference_api.ab_test_config
    monitoring,        \* monitoring_config, performance_monitor, ab_test_manager,
                       \* rollback_manager, drift_detector of inference_api
    api_last,          \* the last request: endpoint, status, body
    dag_config,        \* config.yaml as the DAG tasks read it: monitoring.performance_threshold
    dag_run,           \* number of the current run of churn_prediction_training_pipeline
    task_instances,    \* per task of the run: its state and the tries made
    xcom,              \* the XCom values pushed in the run
    succeeded,         \* the tasks of the run that succeeded, in the order they did
    deployed,          \* model version in production_model.pkl and in production_version.json
    dag_last           \* the last task that ran: task, try outcome, fault

vars == <<config, prod, rollback_history, rollback_counter, alerts, now,
          engine_state, last, ab_args, ab_result, perf_args, perf_result,
          performance_history, mon_last, threads,
          detector, drift_gauge, report_ids, drift_last,
          trainer, mlflow_runs, train_last,
          pred_detector, pred_gauge, pred_last,
          api_env, started, models, preprocessor, ab_test_config, monitoring, api_last,
          dag_config, dag_run, task_instances, xcom, succeeded, deployed, dag_last>>

engine_vars == <<config, prod, rollback_history, rollback_counter, alerts, now,
                 engine_state, last>>

ab_vars == <<ab_args, ab_result>>

perf_vars == <<perf_args, perf_result>>

\* The state of the components other than the rollback engine and analyze_ab_test.
mon_vars == <<performance_history, mon_last>>

\* The engine state without the clock.
engine_rest == <<config, prod, rollback_history, rollback_counter, alerts,
                 engine_state, last>>

drift_vars == <<detector, drift_gauge, report_ids, drift_last>>

\* The variables of the components modelled after the monitor and its threads.
train_vars == <<trainer, mlflow_runs, train_last>>

pred_vars == <<pred_detector, pred_gauge, pred_last>>

\* The variables of the components modelled after the trainer.
api_vars == <<api_env, started, models, preprocessor, ab_test_config, monitoring, api_last>>

dag_vars == <<dag_config, dag_run, task_instances, xcom, succeeded, deployed, dag_last>>

late_vars == <<pred_vars, api_vars, dag_vars>>

tail_vars == <<drift_vars, train_vars, late_vars>>

rest_vars == <<threads, tail_vars>>

ext_vars == <<perf_vars, mon_vars, rest_vars>>

(***************************************************************************)
(* Bounds of the model.                                                    *)
(***************************************************************************)
MaxHistory == 2
MaxClock == 1
MaxReports == 2
MaxRuns == 4
MaxBatch == 2
NumThreads == 2

(***************************************************************************)
(* Values.                                                                 *)
(***************************************************************************)
NoneVal == "None"

Metrics == {"accuracy", "precision", "recall", "f1_score", "roc_auc"}

\* Python dict.get(key, default); a dict is a function on the keys it holds.
Get(d, key, default) == IF key \in DOMAIN d THEN d[key] ELSE default

\* num/den > perMille/1000, for den > 0.
FracGtPerMille(f, perMille) == f.num * 1000 > perMille * f.den

\* num/den compared with a whole number, for den > 0.
FracGt(f, n) == f.num > n * f.den
FracLt(f, n) == f.num < n * f.den

Min(a, b) == IF a < b THEN a ELSE b

\* datetime.now(): a reading not earlier than the last one, within the bound.
ClockReadings == now .. Min(now + 1, MaxClock)

(***************************************************************************)
(* Program constants (fixed-point where the source has a fraction).        *)
(***************************************************************************)
\* check_performance_degradation(..., threshold: float = 0.05), in thousandths
DefaultThreshold == 50
\* improvement_percentage > 2.0
DeployImprovementPct == 2
\* improvement_percentage < -5.0
RollbackImprovementPct == -5

(***************************************************************************)
(* Inputs.                                                                 *)
(***************************************************************************)
\* roc_auc values: 0.40 is the base; 0.38 is a drop of exactly 5%, 0.37 one of
\* 7.5%, 0.35 one of 12.5%; 0.408 is a gain of exactly 2%, 0.42 one of 5%.
RocVals == {0, 350, 370, 380, 400, 408, 420}

\* Every dict with keys among `keys` and values in `vals`.
DictsOver(keys, vals) == UNION {[S -> vals] : S \in SUBSET keys}

\* Performance dicts handed to check_rollback_conditions: current and baseline.
CurrentDicts == DictsOver({"roc_auc"}, {370, 380, 400})
BaselineDicts == DictsOver({"roc_auc"}, {0, 400})

\* monitoring.performance_threshold values, in thousandths (0.05, 0.10).
ThresholdVals == {50, 100}

Buckets == {"b1", "b2"}
StoredKeys == {"models/v1.pkl"}
Keys == StoredKeys \cup {"models/v0.pkl"}

\* A model path: "s3://<bucket>/<key>", or the bare key when bucket is "".
Paths == [bucket : Buckets \cup {""}, key : Keys]

Reasons == {"Performance degradation detected"}

\* The configurations an engine is constructed with: a dict that may lack
\* monitoring.performance_threshold or infrastructure.aws.s3_bucket.
Configs ==
    {[performance_threshold |-> t, s3_bucket |-> "b1"] : t \in ThresholdVals}
    \cup {[performance_threshold |-> t] : t \in ThresholdVals}
    \cup {[s3_bucket |-> "b1"]}

\* What can go wrong in the collaborators during one execute_rollback call.
Faults == {"none", "client", "copy", "log", "alert"}

Recommendations == {"deploy_model_b", "rollback_to_model_a", "continue_testing"}

\* ab_test_results handed to check_rollback_conditions: None, an empty dict, or
\* a dict whose 'recommendation' is a recommendation or None.
ABResultInputs ==
    {[kind |-> "none", recommendation |-> NoneVal],
     [kind |-> "empty", recommendation |-> NoneVal]}
    \cup {[kind |-> "results", recommendation |-> r] :
              r \in Recommendations \cup {NoneVal}}

(***************************************************************************)
(* ModelPerformanceMonitor                                                 *)
(***************************************************************************)
DegradationPercentage(current_performance, baseline_performance) ==
    LET current_score == Get(current_performance, "roc_auc", 0)
        baseline_score == Get(baseline_performance, "roc_auc", 0)
        degradation == baseline_score - current_score
    IN  IF baseline_score > 0
        THEN [num |-> degradation, den |-> baseline_score]
        ELSE [num |-> 0, den |-> 1]

\* check_performance_degradation with >= in place of >.
CheckPerformanceDegradationAtLeast(current_performance, baseline_performance, threshold) ==
    LET f == DegradationPercentage(current_performance, baseline_performance)
    IN  f.num * 1000 >= threshold * f.den

CheckPerformanceDegradation(current_performance, baseline_performance, threshold) ==
    FracGtPerMille(DegradationPercentage(current_performance, baseline_performance),
                   threshold)

(***************************************************************************)
(* ABTestManager                                                           *)
(***************************************************************************)
ImprovementPercentage(a_score, b_score) ==
    IF a_score > 0
    THEN [num |-> (b_score - a_score) * 100, den |-> a_score]
    ELSE [num |-> 0, den |-> 1]

CompareMetric(a_score, b_score) ==
    [model_a_score |-> a_score,
     model_b_score |-> b_score,
     difference |-> b_score - a_score,
     improvement_percentage |-> ImprovementPercentage(a_score, b_score),
     model_b_better |-> b_score > a_score]

Comparison(model_a_metrics, model_b_metrics) ==
    [metric \in (DOMAIN model_a_metrics) \cap (DOMAIN model_b_metrics) \cap Metrics |->
        CompareMetric(model_a_metrics[metric], model_b_metrics[metric])]

\* Recommend with the deploy threshold not strict (>= 2.0).
RecommendFromTwoPercent(comparison) ==
    IF "roc_auc" \in DOMAIN comparison
    THEN LET primary_comparison == comparison["roc_auc"]
         IN  IF primary_comparison.model_b_better
                /\ ~FracLt(primary_comparison.improvement_percentage, DeployImprovementPct)
             THEN "deploy_model_b"
             ELSE IF FracLt(primary_comparison.improvement_percentage,
                            RollbackImprovementPct)
                  THEN "rollback_to_model_a"
                  ELSE "continue_testing"
    ELSE NoneVal

Recommend(comparison) ==
    IF "roc_auc" \in DOMAIN comparison
    THEN LET primary_comparison == comparison["roc_auc"]
         IN  IF primary_comparison.model_b_better
                /\ FracGt(primary_comparison.improvement_percentage, DeployImprovementPct)
             THEN "deploy_model_b"
             ELSE IF FracLt(primary_comparison.improvement_percentage,
                            RollbackImprovementPct)
                  THEN "rollback_to_model_a"
                  ELSE "continue_testing"
    ELSE NoneVal

AnalyzeABTestResult(model_a_metrics, model_b_metrics, timestamp) ==
    LET comparison == Comparison(model_a_metrics, model_b_metrics)
    IN  [timestamp |-> timestamp,
         model_a_metrics |-> model_a_metrics,
         model_b_metrics |-> model_b_metrics,
         comparison |-> comparison,
         recommendation |-> Recommend(comparison)]

\* should_trigger_rollback that fires on everything but deploy_model_b.
ShouldTriggerRollbackUnlessDeploy(ab_test_results) ==
    ab_test_results.recommendation # "deploy_model_b"

ShouldTriggerRollback(ab_test_results) ==
    ab_test_results.recommendation = "rollback_to_model_a"

(***************************************************************************)
(* AutomatedRollbackManager                                                *)
(***************************************************************************)
\* The record of a call: its operation, how it ended ("returned", "true",
\* "false", or "raised" when an exception left the call), the decision a
\* check returned (<< >> when there is none) and, for execute_rollback, the
\* effects it performed, in order.
Call(op, ret, decision, effects) ==
    [op |-> op, ret |-> ret, decision |-> decision, effects |-> effects]

\* `if ab_test_results:` - None and the empty dict are false.
Truthy(ab_test_results) == ab_test_results.kind = "results"

\* The final decision with `and` in place of `or`.
ShouldRollbackBoth(performance_check, ab_test_check) ==
    performance_check /\ ab_test_check

ShouldRollback(performance_check, ab_test_check) ==
    performance_check \/ ab_test_check

\* The dict check_rollback_conditions returns.  The configured threshold is
\* read from the configuration, and check_performance_degradation is called
\* without it, so the default threshold applies.
RollbackDecision(current_performance, baseline_performance, ab_test_results, timestamp) ==
    LET threshold == config.performance_threshold
        performance_check ==
            CheckPerformanceDegradation(current_performance, baseline_performance,
                                        DefaultThreshold)
        ab_test_check ==
            Truthy(ab_test_results) /\ ShouldTriggerRollback(ab_test_results)
    IN  [timestamp |-> timestamp,
         should_rollback |-> ShouldRollback(performance_check, ab_test_check),
         reasons |->
             (IF performance_check
              THEN <<"Performance degradation detected">> ELSE << >>)
             \o (IF ab_test_check
                 THEN <<"A/B test indicates model B is significantly worse">>
                 ELSE << >>),
         performance_check |-> performance_check,
         ab_test_check |-> ab_test_check]

RollbackInfo(timestamp, reason, previous_model_s3_path) ==
    [rollback_timestamp |-> timestamp,
     reason |-> reason,
     previous_model_s3_path |-> previous_model_s3_path,
     rollback_executed_by |-> "automated_system"]

\* check_rollback_conditions that also records a positive decision in
\* rollback_history.
CheckRollbackConditionsRecording(current_performance, baseline_performance, ab_test_results, timestamp) ==
    /\ now' = timestamp
    /\ IF "performance_threshold" \notin DOMAIN config
       THEN /\ last' = Call("check_rollback_conditions", "raised", << >>, << >>)
            /\ UNCHANGED <<engine_state, rollback_history>>
       ELSE LET decision == RollbackDecision(current_performance, baseline_performance,
                                             ab_test_results, timestamp)
            IN  /\ last' = Call("check_rollback_conditions", "returned",
                                <<decision>>, << >>)
                /\ engine_state' =
                       IF decision.should_rollback /\ engine_state = "Healthy"
                       THEN "Flagged" ELSE engine_state
                /\ rollback_history' =
                       IF decision.should_rollback
                          /\ Len(rollback_history) < MaxHistory
                       THEN Append(rollback_history,
                                   RollbackInfo(timestamp, decision.reasons[1], prod))
                       ELSE rollback_history
    /\ UNCHANGED <<config, prod, rollback_counter, alerts, ab_vars, ext_vars>>

\* check_rollback_conditions(current_performance, baseline_performance,
\* ab_test_results), with timestamp the reading of datetime.now().  A
\* configuration without monitoring.performance_threshold raises KeyError.
CheckRollbackConditions(current_performance, baseline_performance, ab_test_results, timestamp) ==
    /\ now' = timestamp
    /\ IF "performance_threshold" \notin DOMAIN config
       THEN /\ last' = Call("check_rollback_conditions", "raised", << >>, << >>)
            /\ UNCHANGED engine_state
       ELSE LET decision == RollbackDecision(current_performance, baseline_performance,
                                             ab_test_results, timestamp)
            IN  /\ last' = Call("check_rollback_conditions", "returned",
                                <<decision>>, << >>)
                /\ engine_state' =
                       IF decision.should_rollback /\ engine_state = "Healthy"
                       THEN "Flagged" ELSE engine_state
    /\ UNCHANGED <<config, prod, rollback_history, rollback_counter, alerts, ab_vars, ext_vars>>

\* previous_model_s3_path.replace(f's3://{s3_bucket}/', ''): the prefix of the
\* configured bucket is removed; any other text stays as it is.
CopySource(previous_model_s3_path, s3_bucket) ==
    IF previous_model_s3_path.bucket = s3_bucket
    THEN [bucket |-> "", key |-> previous_model_s3_path.key]
    ELSE previous_model_s3_path

\* s3.copy succeeds on a key that is stored in the bucket.
SourceExists(copy_source) ==
    copy_source.bucket = "" /\ copy_source.key \in StoredKeys

\* rollback_history.insert(0, rollback_info) in place of append.
InsertRollbackFirst(history, rollback_info) == <<rollback_info>> \o history

\* self.rollback_history.append(rollback_info)
AppendRollback(history, rollback_info) == Append(history, rollback_info)

\* The try block with the history append and the counter ahead of s3.copy.
TryBodyRecordFirst == <<"append", "inc", "copy", "log", "alert">>

\* The statements of the try block, in order: s3.copy, rollback_history.append,
\* ROLLBACK_COUNTER.inc, logger.info, _send_rollback_alert.
TryBody == <<"copy", "append", "inc", "log", "alert">>

\* Whether a statement of the try block raises.
StepRaises(step, fault, copy_source) ==
    \/ step = fault
    \/ step = "copy" /\ ~SourceExists(copy_source)

\* The effect of one statement of the try block that did not raise.
ApplyStep(e, step, copy_source, rollback_info) ==
    LET done == [e EXCEPT !.effects = Append(@, step)]
    IN  CASE step = "copy" -> [done EXCEPT !.prod = copy_source.key]
          [] step = "append" ->
                 [done EXCEPT !.rollback_history = AppendRollback(@, rollback_info)]
          [] step = "inc" -> [done EXCEPT !.rollback_counter = @ + 1]
          [] step = "log" -> done
          [] step = "alert" -> [done EXCEPT !.alerts = @ + 1]

\* try: <steps>; return True / except Exception: return False
RECURSIVE RunTry(_, _, _, _, _)
RunTry(e, steps, fault, copy_source, rollback_info) ==
    IF steps = << >>
    THEN [e EXCEPT !.ret = "true"]
    ELSE IF StepRaises(Head(steps), fault, copy_source)
         THEN [e EXCEPT !.ret = "false"]
         ELSE RunTry(ApplyStep(e, Head(steps), copy_source, rollback_info),
                     Tail(steps), fault, copy_source, rollback_info)

\* execute_rollback(previous_model_s3_path, reason).  boto3.client('s3') and
\* the read of the bucket from the configuration come before the try block.
ExecuteRollback(previous_model_s3_path, reason, fault, timestamp) ==
    /\ Len(rollback_history) < MaxHistory
    /\ IF fault = "client" \/ "s3_bucket" \notin DOMAIN config
       THEN /\ last' = Call("execute_rollback", "raised", << >>, << >>)
            /\ UNCHANGED <<prod, rollback_history, rollback_counter, alerts, now,
                           engine_state>>
       ELSE LET r == RunTry([prod |-> prod,
                             rollback_history |-> rollback_history,
                             rollback_counter |-> rollback_counter,
                             alerts |-> alerts,
                             effects |-> << >>,
                             ret |-> "running"],
                            TryBody, fault,
                            CopySource(previous_model_s3_path, config.s3_bucket),
                            RollbackInfo(timestamp, reason, previous_model_s3_path))
                performed == {r.effects[i] : i \in DOMAIN r.effects}
            IN  /\ prod' = r.prod
                /\ rollback_history' = r.rollback_history
                /\ rollback_counter' = r.rollback_counter
                /\ alerts' = r.alerts
                /\ now' = IF "copy" \in performed THEN timestamp ELSE now
                /\ last' = Call("execute_rollback", r.ret, << >>, r.effects)
                /\ engine_state' =
                       IF {"copy", "append"} \subseteq performed
                       THEN "RolledBack" ELSE engine_state
    /\ UNCHANGED <<config, ab_vars, ext_vars>>

(***************************************************************************)
(* analyze_ab_test as a call on given arguments.                           *)
(***************************************************************************)
AnalyzeABTest ==
    /\ ab_result = << >>
    /\ ab_result' = <<AnalyzeABTestResult(ab_args[1], ab_args[2], now)>>
    /\ UNCHANGED <<engine_vars, ab_args, ext_vars>>

(***************************************************************************)
(* Specifications.                                                         *)
(***************************************************************************)
NoCall == Call("none", "none", << >>, << >>)

\* No call of analyze_ab_test, of check_performance_degradation.
IdleAB == ab_args = << <<>>, <<>> >> /\ ab_result = << >>
IdlePerf == perf_args = << <<>>, <<>>, 0 >> /\ perf_result = << >>

\* The components other than the engine and analyze_ab_test, not in use.
IdleMon == performance_history = << >> /\ mon_last = [op |-> "none", ret |-> "none"]

Threads == 1 .. NumThreads
IdleThread == [op |-> "none", pc |-> "idle", ts |-> 0]
IdleConc == threads = [t \in Threads |-> IdleThread]

\* A dict with no key; d with d[key] = value.
EmptyDict == [key \in {} |-> 0]
Put(d, key, value) == [k \in DOMAIN d \cup {key} |-> IF k = key THEN value ELSE d[k]]

NoDetector == [constructed |-> FALSE]
NoDriftCall == [op |-> "none", ret |-> "none", rows |-> 0, cols |-> 0, names |-> 0, threshold |-> 0, numerics |-> << >>, report_id |-> 0, entries |-> EmptyDict, warnings |-> {}]

IdleDrift ==
    /\ detector = NoDetector
    /\ drift_gauge = EmptyDict
    /\ report_ids = {}
    /\ drift_last = NoDriftCall

\* None for best_model, and for a run id (run ids count from 1).
NoModel == [name |-> NoneVal, run_id |-> 0]
NoRun == 0

NoTrainer == [constructed |-> FALSE]
NoTrainCall == [op |-> "none", ret |-> "none", results |-> EmptyDict, errors |-> << >>, mlflow_errors |-> << >>]

IdleTrain ==
    /\ trainer = NoTrainer
    /\ mlflow_runs = 0
    /\ train_last = NoTrainCall

NoPredCall == [op |-> "none", ret |-> "none", threshold |-> 0, result |-> << >>]

IdlePred ==
    /\ pred_detector = [constructed |-> FALSE]
    /\ pred_gauge = << >>
    /\ pred_last = NoPredCall

\* inference_api at import: lines 73-89.
NoRequest == [endpoint |-> "none", status |-> 0, body |-> << >>, request |-> << >>]
InitialABTestConfig == [enabled |-> TRUE, traffic_split |-> 500, model_a |-> NoneVal, model_b |-> NoneVal]
InitialMonitoring == [monitoring_config |-> NoneVal, performance_monitor |-> NoneVal, ab_test_manager |-> NoneVal, rollback_manager |-> NoneVal, drift_detector |-> NoneVal]

ImportedApi ==
    /\ started = FALSE
    /\ models = << >>
    /\ preprocessor = FALSE
    /\ ab_test_config = InitialABTestConfig
    /\ monitoring = InitialMonitoring
    /\ api_last = NoRequest

IdleApi ==
    /\ api_env = [monitoring_available |-> TRUE, data_exists |-> TRUE, has_churn |-> TRUE]
    /\ ImportedApi

TaskIds == {"validate_data_quality", "preprocess_data", "train_models", "evaluate_model", "deploy_model", "cleanup_temp_files"}

NoTaskRun == [task_id |-> "none", outcome |-> "none", fault |-> "none"]

\* A DAG run as the scheduler creates it: no task has run, nothing pushed.
FreshRun ==
    /\ task_instances = [t \in TaskIds |-> [state |-> "none", try_number |-> 0]]
    /\ xcom = EmptyDict
    /\ succeeded = << >>
    /\ dag_last = NoTaskRun

IdleDag ==
    /\ dag_config = [performance_threshold |-> 800]
    /\ dag_run = 1
    /\ FreshRun
    /\ deployed = [production_model |-> 0, production_version |-> 0]

IdleLate == IdlePred /\ IdleApi /\ IdleDag

IdleTail == IdleDrift /\ IdleTrain /\ IdleLate

IdleRest == IdleConc /\ IdleTail

IdleExt == IdlePerf /\ IdleMon /\ IdleRest

InitEngine ==
    /\ config \in Configs
    /\ prod = "models/current.pkl"
    /\ rollback_history = << >>
    /\ rollback_counter = 0
    /\ alerts = 0
    /\ now = 0
    /\ engine_state = "Healthy"
    /\ last = NoCall

\* The rollback engine: any sequence of check_rollback_conditions and
\* execute_rollback calls on one AutomatedRollbackManager.
Init ==
    /\ InitEngine
    /\ IdleAB
    /\ IdleExt

Check ==
    \E current \in CurrentDicts, baseline \in BaselineDicts, ab \in ABResultInputs,
       t \in ClockReadings :
        CheckRollbackConditions(current, baseline, ab, t)

Execute ==
    \E path \in Paths, reason \in Reasons, fault \in Faults, t \in ClockReadings :
        ExecuteRollback(path, reason, fault, t)

Next == Check \/ Execute

Spec == Init /\ [][Next]_vars

(***************************************************************************)
(* analyze_ab_test on its own: the arguments are drawn from ABDicts and    *)
(* the call is applied to them.                                            *)
(***************************************************************************)
\* Metric dicts for analyze_ab_test: roc_auc absent or in RocVals, accuracy
\* absent, lower or higher, and precision, recall and f1_score absent, present
\* one at a time, or present together.
ABDicts ==
    {d \in DictsOver(Metrics, RocVals \cup {300, 500}) :
        /\ "roc_auc" \in DOMAIN d => d["roc_auc"] \in RocVals
        /\ \A m \in (DOMAIN d) \ {"roc_auc"} :
               d[m] = (IF m = "accuracy" THEN 300 ELSE 500)
                  \/ (m = "accuracy" /\ d[m] = 500)
        /\ Cardinality((DOMAIN d) \cap {"precision", "recall", "f1_score"}) \in {0, 1, 3}}

InitAB ==
    /\ InitEngine
    /\ config = [performance_threshold |-> DefaultThreshold, s3_bucket |-> "b1"]
    /\ ab_args \in ABDicts \X ABDicts
    /\ ab_result = << >>
    /\ IdleExt

NextAB == AnalyzeABTest

SpecAB == InitAB /\ [][NextAB]_vars

(***************************************************************************)
(* check_performance_degradation on its own: the arguments are drawn from  *)
(* PerfArgDicts and PerfThresholds and the call is applied to them.        *)
(***************************************************************************)
\* Performance dicts: roc_auc absent, 0 or a score, accuracy absent or a score.
PerfArgDicts ==
    {d \in DictsOver({"roc_auc", "accuracy"}, {0, 300, 370, 380, 400, 500}) :
        /\ "roc_auc" \in DOMAIN d => d["roc_auc"] \in {0, 370, 380, 400}
        /\ "accuracy" \in DOMAIN d => d["accuracy"] \in {300, 500}}

\* The threshold argument, in thousandths: -0.01, 0, 0.05, 0.10.
PerfThresholds == {0 - 10, 0, 50, 100}

EngineIdle ==
    /\ InitEngine
    /\ config = [performance_threshold |-> DefaultThreshold, s3_bucket |-> "b1"]

InitPerf ==
    /\ EngineIdle
    /\ IdleAB
    /\ perf_args \in PerfArgDicts \X PerfArgDicts \X PerfThresholds
    /\ perf_result = << >>
    /\ IdleMon
    /\ IdleRest

CheckPerformanceDegradationCall ==
    /\ perf_result = << >>
    /\ perf_result' =
           <<CheckPerformanceDegradation(perf_args[1], perf_args[2], perf_args[3])>>
    /\ UNCHANGED <<engine_vars, ab_vars, perf_args, mon_vars, rest_vars>>

NextPerf == CheckPerformanceDegradationCall

SpecPerf == InitPerf /\ [][NextPerf]_vars

(***************************************************************************)
(* One ModelPerformanceMonitor: any sequence of evaluate_model_performance *)
(* and check_performance_degradation calls.                                *)
(***************************************************************************)
ModelVersions == {"v1", "v2"}

\* The metrics sklearn computes from y_true, y_pred and y_pred_proba.
ComputedMetrics ==
    {[m \in Metrics |-> IF m = "roc_auc" THEN r ELSE 500] : r \in {380, 400}}

\* What can raise in one evaluate_model_performance call: a sklearn metric
\* (roc_auc_score on a single class), a gauge, the logger.
MonitorFaults == {"none", "metrics", "gauge", "log"}

PerformanceRecord(timestamp, model_version, metrics) ==
    [timestamp |-> timestamp, model_version |-> model_version, metrics |-> metrics]

\* performance_history.insert(0, performance_record) in place of append.
InsertRecordFirst(history, performance_record) == <<performance_record>> \o history

\* self.performance_history.append(performance_record)
AppendRecord(history, performance_record) == Append(history, performance_record)

\* evaluate_model_performance(y_true, y_pred, y_pred_proba, model_version):
\* metrics, timestamped record, append, gauges, log, return metrics.
EvaluateModelPerformance(metrics, model_version, fault, timestamp) ==
    /\ Len(performance_history) < MaxHistory
    /\ IF fault = "metrics"
       THEN /\ mon_last' = [op |-> "evaluate_model_performance", ret |-> "raised"]
            /\ UNCHANGED <<performance_history, now>>
       ELSE /\ now' = timestamp
            /\ performance_history' =
                   AppendRecord(performance_history,
                                PerformanceRecord(timestamp, model_version, metrics))
            /\ mon_last' = [op |-> "evaluate_model_performance",
                            ret |-> IF fault = "none" THEN "returned" ELSE "raised"]
    /\ UNCHANGED <<engine_rest, ab_vars, perf_vars, rest_vars>>

\* check_performance_degradation called on the monitor.
MonitorCheckDegradation(current_performance, baseline_performance, threshold) ==
    /\ mon_last' =
           [op |-> "check_performance_degradation",
            ret |-> IF CheckPerformanceDegradation(current_performance,
                                                   baseline_performance, threshold)
                    THEN "true" ELSE "false"]
    /\ UNCHANGED <<engine_vars, ab_vars, perf_vars, performance_history, rest_vars>>

InitMonitor ==
    /\ EngineIdle
    /\ IdleAB
    /\ IdlePerf
    /\ IdleMon
    /\ IdleRest

Evaluate ==
    \E metrics \in ComputedMetrics, version \in ModelVersions,
       fault \in MonitorFaults, t \in ClockReadings :
        EvaluateModelPerformance(metrics, version, fault, t)

CheckDegradation ==
    \E current \in CurrentDicts, baseline \in BaselineDicts :
        MonitorCheckDegradation(current, baseline, DefaultThreshold)

NextMonitor == Evaluate \/ CheckDegradation

SpecMonitor == InitMonitor /\ [][NextMonitor]_vars

(***************************************************************************)
(* Calls made concurrently from several threads on one monitor and one     *)
(* engine.  Neither class holds a lock; a thread can be preempted between  *)
(* reading datetime.now() and list.append, and list.append itself is       *)
(* atomic.  Each thread makes one call: evaluate_model_performance         *)
(* (lines 145 and 150) or execute_rollback (lines 316, 318 and 324-325).   *)
(***************************************************************************)
ThreadOps == {"evaluate_model_performance", "execute_rollback"}

\* The call starts: the metrics are computed, or s3.copy has swapped the pointer.
ThreadBegin(t, op, path) ==
    /\ threads[t].pc = "idle"
    /\ threads' = [threads EXCEPT ![t] = [op |-> op, pc |-> "started", ts |-> 0]]
    /\ prod' = IF op = "execute_rollback" THEN path.key ELSE prod
    /\ UNCHANGED <<config, rollback_history, rollback_counter, alerts, now,
                   engine_state, last, ab_vars, perf_vars, mon_vars, tail_vars>>

\* datetime.now().isoformat() is read into the record.
ThreadStamp(t, timestamp) ==
    /\ threads[t].pc = "started"
    /\ now' = timestamp
    /\ threads' = [threads EXCEPT ![t].pc = "stamped", ![t].ts = timestamp]
    /\ UNCHANGED <<engine_rest, ab_vars, perf_vars, mon_vars, tail_vars>>

\* The record is appended and the call completes.
ThreadAppend(t, path) ==
    /\ threads[t].pc = "stamped"
    /\ threads' = [threads EXCEPT ![t].pc = "done"]
    /\ IF threads[t].op = "evaluate_model_performance"
       THEN /\ performance_history' =
                   AppendRecord(performance_history,
                                PerformanceRecord(threads[t].ts, "v1",
                                                  CHOOSE m \in ComputedMetrics : TRUE))
            /\ UNCHANGED <<rollback_history, rollback_counter, alerts>>
       ELSE /\ rollback_history' =
                   AppendRollback(rollback_history,
                                  RollbackInfo(threads[t].ts,
                                               "Performance degradation detected", path))
            /\ rollback_counter' = rollback_counter + 1
            /\ alerts' = alerts + 1
            /\ UNCHANGED performance_history
    /\ UNCHANGED <<config, prod, now, engine_state, last, ab_vars, perf_vars, mon_last,
                   tail_vars>>

StoredPath == [bucket |-> "b1", key |-> "models/v1.pkl"]

InitConc ==
    /\ EngineIdle
    /\ IdleAB
    /\ IdlePerf
    /\ IdleMon
    /\ IdleConc
    /\ IdleTail

Begin == \E t \in Threads, op \in ThreadOps : ThreadBegin(t, op, StoredPath)

Stamp == \E t \in Threads, ts \in ClockReadings : ThreadStamp(t, ts)

AppendStep == \E t \in Threads : ThreadAppend(t, StoredPath)

NextConc == Begin \/ Stamp \/ AppendStep

SpecConc == InitConc /\ [][NextConc]_vars

(***************************************************************************)
(* DataDriftDetector.  A matrix is its shape and its columns; the cells    *)
(* are integers.  stats.ks_2samp and the numpy histogram routines behind   *)
(* the PSI are numeric library code: what they return for a column is an   *)
(* input of the call (numerics), a p-value and a PSI in thousandths, or    *)
(* the PSI routines raising.  The statistics kept per column are mean,     *)
(* min and max; std, median, q25 and q75 are further values of the same    *)
(* column stored by the same assignment and read by nothing.               *)
(***************************************************************************)
DefaultDriftThreshold == 50
PsiLimit == 100

FeatureNameLists == {<< >>, <<"f1">>, <<"f1", "f2">>}
RowCounts == {0, 2}
ColumnCounts == {1, 2}
DriftThresholds == {DefaultDriftThreshold, 10}
KSResults == {[ks_statistic |-> 200, p_value |-> 50], [ks_statistic |-> 600, p_value |-> 49]}
PsiOutcomes == {[raises |-> TRUE, value |-> 0], [raises |-> FALSE, value |-> 100], [raises |-> FALSE, value |-> 101]}
NumericResults == [ks : KSResults, psi : PsiOutcomes]

Matrix(rows, cols) == [rows |-> rows, cols |-> cols, columns |-> [c \in 1 .. cols |-> [r \in 1 .. rows |-> 10 * c + r]]]
Matrices == {Matrix(rows, cols) : rows \in RowCounts, cols \in ColumnCounts}

RECURSIVE SumSeq(_)
SumSeq(column) == IF column = << >> THEN 0 ELSE Head(column) + SumSeq(Tail(column))

\* np.mean, np.min, np.max of a column that has at least one row.
ColumnStats(column) == [mean |-> [num |-> SumSeq(column), den |-> Len(column)], min |-> CHOOSE x \in {column[r] : r \in DOMAIN column} : \A r \in DOMAIN column : x <= column[r], max |-> CHOOSE x \in {column[r] : r \in DOMAIN column} : \A r \in DOMAIN column : x >= column[r]]

\* The loop of _calculate_reference_stats from feature i on: reference_data[:, i]
\* raises IndexError past the last column, np.min raises ValueError on a
\* column without rows.
RECURSIVE CalculateReferenceStats(_, _, _, _)
CalculateReferenceStats(reference_data, feature_names, i, stats_dict) ==
    IF i > Len(feature_names) THEN [raised |-> "none", stats |-> stats_dict]
    ELSE IF i > reference_data.cols THEN [raised |-> "IndexError", stats |-> stats_dict]
    ELSE IF reference_data.rows = 0 THEN [raised |-> "ValueError", stats |-> stats_dict]
    ELSE CalculateReferenceStats(reference_data, feature_names, i + 1,
             Put(stats_dict, feature_names[i], ColumnStats(reference_data.columns[i])))

DataDriftDetectorInit(reference_data, feature_names) ==
    /\ ~detector.constructed
    /\ LET r == CalculateReferenceStats(reference_data, feature_names, 1, EmptyDict) IN
        /\ detector' = IF r.raised = "none"
                        THEN [constructed |-> TRUE, reference_data |-> reference_data,
                              feature_names |-> feature_names, reference_stats |-> r.stats]
                        ELSE detector
        /\ drift_last' = [NoDriftCall EXCEPT !.op = "__init__",
                              !.ret = IF r.raised = "none" THEN "detector" ELSE r.raised,
                              !.rows = reference_data.rows, !.cols = reference_data.cols,
                              !.names = Len(feature_names)]
    /\ UNCHANGED <<engine_vars, ab_vars, perf_vars, mon_vars, threads, drift_gauge, report_ids,
                   train_vars, late_vars>>

\* _calculate_psi without its try/except: the failure propagates.
CalculatePsiUncaught(outcome) == [raised |-> outcome.raises, value |-> outcome.value, warned |-> FALSE]

\* _calculate_psi: a failure of the computation is logged and 0.0 returned.
CalculatePsi(outcome) == IF outcome.raises THEN [raised |-> FALSE, value |-> 0, warned |-> TRUE] ELSE [raised |-> FALSE, value |-> outcome.value, warned |-> FALSE]

DriftDetectedBoth(p_value, threshold, psi_score) == p_value < threshold /\ psi_score > PsiLimit

DriftDetected(p_value, threshold, psi_score) == p_value < threshold \/ psi_score > PsiLimit

\* The loop of detect_drift from feature i on.  new_data[:, i] raises
\* IndexError past the last column; on a new column without rows ks_2samp
\* or np.min raises ValueError.  acc holds the entries, the gauge and the
\* logged warnings so far.
RECURSIVE DetectDriftLoop(_, _, _, _, _, _)
DetectDriftLoop(det, new_data, threshold, numerics, i, acc) ==
    IF i > Len(det.feature_names) THEN acc
    ELSE IF i > new_data.cols THEN [acc EXCEPT !.raised = "IndexError"]
    ELSE IF new_data.rows = 0 THEN [acc EXCEPT !.raised = "ValueError"]
    ELSE LET feature == det.feature_names[i]
             psi == CalculatePsi(numerics[i].psi)
         IN IF psi.raised THEN [acc EXCEPT !.raised = "Exception"]
            ELSE DetectDriftLoop(det, new_data, threshold, numerics, i + 1,
                    [raised |-> "none",
                     entries |-> Put(acc.entries, feature,
                         [ks_statistic |-> numerics[i].ks.ks_statistic,
                          p_value |-> numerics[i].ks.p_value,
                          psi_score |-> psi.value,
                          drift_detected |-> DriftDetected(numerics[i].ks.p_value, threshold, psi.value),
                          reference_stats |-> det.reference_stats[feature],
                          new_stats |-> ColumnStats(new_data.columns[i])]),
                     gauge |-> Put(acc.gauge, feature, psi.value),
                     warnings |-> acc.warnings \cup (IF psi.warned THEN {feature} ELSE {})])

\* drift_results = {} at the head of detect_drift is a mapping of its own;
\* the alternative hands out the first mapping again.
CachedMapping(ids) == 1

NewMapping(ids) == Cardinality(ids) + 1

DetectDrift(new_data, threshold, numerics) ==
    /\ detector.constructed
    /\ Cardinality(report_ids) < MaxReports
    /\ LET id == NewMapping(report_ids)
           r == DetectDriftLoop(detector, new_data, threshold, numerics, 1,
                    [raised |-> "none", entries |-> EmptyDict, gauge |-> drift_gauge, warnings |-> {}])
       IN /\ report_ids' = report_ids \cup {id}
          /\ drift_gauge' = r.gauge
          /\ drift_last' = [op |-> "detect_drift",
                            ret |-> IF r.raised = "none" THEN "report" ELSE r.raised,
                            rows |-> new_data.rows, cols |-> new_data.cols,
                            names |-> Len(detector.feature_names),
                            threshold |-> threshold, numerics |-> numerics, report_id |-> id,
                            entries |-> IF r.raised = "none" THEN r.entries ELSE EmptyDict,
                            warnings |-> r.warnings]
    /\ UNCHANGED <<engine_vars, ab_vars, perf_vars, mon_vars, threads, detector, train_vars, late_vars>>

InitDrift ==
    /\ EngineIdle
    /\ IdleAB
    /\ IdlePerf
    /\ IdleMon
    /\ IdleConc
    /\ IdleTail

Construct ==
    \E reference_data \in Matrices, feature_names \in FeatureNameLists :
        DataDriftDetectorInit(reference_data, feature_names)

Detect ==
    /\ detector.constructed
    /\ \E new_data \in Matrices, threshold \in DriftThresholds :
        \E numerics \in [1 .. Len(detector.feature_names) -> NumericResults] :
            DetectDrift(new_data, threshold, numerics)

NextDrift == Construct \/ Detect

SpecDrift == InitDrift /\ [][NextDrift]_vars

(***************************************************************************)
(* ModelTrainer (src/scripts/train.py).  What the tracker and the          *)
(* estimator do for one candidate is an input of train_models: whether     *)
(* mlflow.start_run raises, the step of the try body that raises (tune,    *)
(* fit, evaluate, cv) if any, whether the mlflow logging raises, and the   *)
(* test metrics.  A trained estimator is identified by its name and the    *)
(* run it was trained in.  Of the test metrics only f1_score and roc_auc   *)
(* are kept, the two that test_score reads.                                *)
(***************************************************************************)
InitialBestScore == 0

AlgorithmLists == {<< >>, <<"random_forest">>, <<"random_forest", "xgboost">>, <<"svm", "xgboost">>}
KnownAlgorithms == {"random_forest", "xgboost", "logistic_regression"}
SetupOutcomes == {"ok", "raise"}
TrainFaults == {"none", "tune", "fit", "evaluate", "cv"}
TestMetrics == {[f1_score |-> 500, roc_auc |-> 0], [f1_score |-> 500, roc_auc |-> 700], [f1_score |-> 500, roc_auc |-> 800], [f1_score |-> 750]}
CandidateOutcomes == {[start_run |-> "raise", fault |-> "none", logging |-> "ok", test_metrics |-> [f1_score |-> 750]]} \cup [start_run : {"ok"}, fault : TrainFaults \ {"none"}, logging : {"ok"}, test_metrics : {[f1_score |-> 750]}] \cup [start_run : {"ok"}, fault : {"none"}, logging : {"ok", "raise"}, test_metrics : TestMetrics]

\* ModelTrainer.__init__ with _setup_mlflow, which swallows a tracker failure.
ModelTrainerInit(setup) ==
    /\ ~trainer.constructed
    /\ trainer' = [constructed |-> TRUE, models |-> << >>, best_model |-> NoModel,
                   best_model_name |-> NoneVal, best_score |-> InitialBestScore,
                   best_run_id |-> NoRun, experiment_id |-> setup = "ok"]
    /\ train_last' = [NoTrainCall EXCEPT !.op = "__init__", !.ret = "trainer"]
    /\ UNCHANGED <<engine_vars, ab_vars, perf_vars, mon_vars, threads, drift_vars, mlflow_runs,
                   late_vars>>

\* create_models: the configured algorithms of a known type, in configuration order.
RECURSIVE KnownOf(_)
KnownOf(algorithms) ==
    IF algorithms = << >> THEN << >>
    ELSE IF Head(algorithms) \in KnownAlgorithms THEN <<Head(algorithms)>> \o KnownOf(Tail(algorithms))
    ELSE KnownOf(Tail(algorithms))

CreateModels(algorithms) ==
    /\ trainer.constructed
    /\ train_last.op = "__init__"
    /\ trainer' = [trainer EXCEPT !.models = KnownOf(algorithms)]
    /\ train_last' = [NoTrainCall EXCEPT !.op = "create_models", !.ret = "models"]
    /\ UNCHANGED <<engine_vars, ab_vars, perf_vars, mon_vars, threads, drift_vars, mlflow_runs,
                   late_vars>>

TestScore(test_metrics) == IF "roc_auc" \in DOMAIN test_metrics THEN test_metrics.roc_auc ELSE test_metrics.f1_score

\* The loop of train_models from candidate i on.  acc holds the trainer, the
\* local results and best_run_id, the run counter and the two error logs;
\* acc.raised is set when mlflow.start_run, outside the try, raises.
RECURSIVE TrainLoop(_, _, _)
TrainLoop(outcomes, i, acc) ==
    IF i > Len(acc.trainer.models) THEN acc
    ELSE LET model_name == acc.trainer.models[i]
             o == outcomes[i]
             run_id == acc.runs + 1
             score == TestScore(o.test_metrics)
             optimized_model == [name |-> model_name, run_id |-> run_id]
         IN IF o.start_run = "raise" THEN [acc EXCEPT !.raised = "MlflowException"]
            ELSE IF o.fault # "none"
            THEN TrainLoop(outcomes, i + 1,
                     [acc EXCEPT !.runs = run_id, !.errors = Append(@, model_name)])
            ELSE TrainLoop(outcomes, i + 1,
                     [acc EXCEPT
                        !.runs = run_id,
                        !.mlflow_errors = IF acc.trainer.experiment_id /\ o.logging = "raise"
                                          THEN Append(@, model_name) ELSE @,
                        !.results = Put(@, model_name, [model |-> optimized_model,
                                                        test_score |-> score,
                                                        run_id |-> run_id]),
                        !.trainer = IF score > acc.trainer.best_score
                                    THEN [@ EXCEPT !.best_score = score,
                                                   !.best_model = optimized_model,
                                                   !.best_model_name = model_name]
                                    ELSE @,
                        !.best_run_id = IF score > acc.trainer.best_score THEN run_id ELSE @])

\* The end of train_models without the check that results is not empty.
TrainReturnUnchecked(r) == IF r.raised # "none" THEN r.raised ELSE IF r.trainer.best_model_name = NoneVal THEN "RuntimeError" ELSE "results"

\* How train_models ends after the loop: the exception of start_run, the
\* RuntimeError of an empty results or of no best model, or the results.
TrainReturn(r) == IF r.raised # "none" THEN r.raised ELSE IF DOMAIN r.results = {} THEN "RuntimeError" ELSE IF r.trainer.best_model_name = NoneVal THEN "RuntimeError" ELSE "results"

TrainModels(outcomes) ==
    /\ trainer.constructed
    /\ mlflow_runs + Len(trainer.models) <= MaxRuns
    /\ LET r == TrainLoop(outcomes, 1, [raised |-> "none", trainer |-> trainer,
                                        results |-> EmptyDict, best_run_id |-> NoRun,
                                        runs |-> mlflow_runs, errors |-> << >>,
                                        mlflow_errors |-> << >>])
           ret == TrainReturn(r)
       IN /\ trainer' = IF ret = "results"
                        THEN [r.trainer EXCEPT !.best_run_id = r.best_run_id]
                        ELSE r.trainer
          /\ mlflow_runs' = r.runs
          /\ train_last' = [op |-> "train_models", ret |-> ret, results |-> r.results,
                            errors |-> r.errors, mlflow_errors |-> r.mlflow_errors]
    /\ UNCHANGED <<engine_vars, ab_vars, perf_vars, mon_vars, threads, drift_vars, late_vars>>

RegisterOutcomes == {"ok", "register", "set_alias"}
RunIdArgs == {NoRun, 1}

\* register_model_with_mlflow: None without an experiment, a best model or a
\* run id (mlflow.active_run() is None outside a run), None when a tracker
\* call raises inside the try, the registered version otherwise.
RegisterModelWithMlflow(run_id, outcome) ==
    /\ trainer.constructed
    /\ train_last.op = "train_models"
    /\ train_last' = [NoTrainCall EXCEPT
                         !.op = "register_model_with_mlflow",
                         !.ret = IF ~trainer.experiment_id \/ trainer.best_model = NoModel THEN "None"
                                 ELSE IF run_id = NoRun THEN "None"
                                 ELSE IF outcome # "ok" THEN "None"
                                 ELSE "version",
                         !.errors = IF trainer.experiment_id /\ trainer.best_model # NoModel
                                       /\ (run_id = NoRun \/ outcome # "ok")
                                    THEN <<"register_model_with_mlflow">> ELSE << >>]
    /\ UNCHANGED <<engine_vars, ab_vars, perf_vars, mon_vars, threads, drift_vars, trainer,
                   mlflow_runs, late_vars>>

InitTrain ==
    /\ EngineIdle
    /\ IdleAB
    /\ IdlePerf
    /\ IdleMon
    /\ IdleConc
    /\ IdleTail

NewTrainer == \E setup \in SetupOutcomes : ModelTrainerInit(setup)

Create == \E algorithms \in AlgorithmLists : CreateModels(algorithms)

Train ==
    /\ trainer.constructed
    /\ \E outcomes \in [1 .. Len(trainer.models) -> CandidateOutcomes] : TrainModels(outcomes)

Register ==
    \E run_id \in RunIdArgs, outcome \in RegisterOutcomes : RegisterModelWithMlflow(run_id, outcome)

NextTrain == NewTrainer \/ Create \/ Train \/ Register

SpecTrain == InitTrain /\ [][NextTrain]_vars

(***************************************************************************)
(* PredictionDriftDetector.  A prediction vector is a sequence of integers *)
(* in thousandths with at least one element; its mean is the fraction      *)
(* sum / length.  The p-value of stats.ks_2samp is an input of the call.   *)
(* reference_std and new_std are computed and read by nothing.             *)
(***************************************************************************)
PValueCutoff == 50
DefaultMeanChangeThreshold == 100

PredictionVectors == {<<500, 500>>, <<500, 600>>, <<560>>, <<0>>, <<0 - 1000>>, <<0 - 500>>}
MeanChangeThresholds == {DefaultMeanChangeThreshold, 200, 0 - 500}
PredictionKSResults == {[ks_statistic |-> 200, p_value |-> 50], [ks_statistic |-> 600, p_value |-> 49]}

Abs(x) == IF x < 0 THEN 0 - x ELSE x

\* np.mean
Mean(values) == [num |-> SumSeq(values), den |-> Len(values)]

PredictionDriftDetectorInit(reference_predictions) ==
    /\ ~pred_detector.constructed
    /\ pred_detector' = [constructed |-> TRUE, reference_predictions |-> reference_predictions,
                         reference_mean |-> Mean(reference_predictions)]
    /\ pred_last' = [NoPredCall EXCEPT !.op = "__init__", !.ret = "detector"]
    /\ UNCHANGED <<engine_vars, ab_vars, perf_vars, mon_vars, threads, drift_vars, train_vars,
                   pred_gauge, api_vars, dag_vars>>

\* abs(new_mean - reference_mean) / reference_mean if reference_mean > 0 else 0
MeanChange(new_mean, reference_mean) == IF reference_mean.num > 0 THEN [num |-> Abs(new_mean.num * reference_mean.den - reference_mean.num * new_mean.den), den |-> new_mean.den * reference_mean.num] ELSE [num |-> 0, den |-> 1]

\* The cut-off of the p-value taken from the threshold argument.
PredictionDriftDetectedByThreshold(p_value, mean_change, threshold) == p_value < threshold \/ FracGtPerMille(mean_change, threshold)

PredictionDriftDetected(p_value, mean_change, threshold) == p_value < PValueCutoff \/ FracGtPerMille(mean_change, threshold)

DetectPredictionDrift(new_predictions, threshold, ks, timestamp) ==
    /\ pred_detector.constructed
    /\ LET new_mean == Mean(new_predictions)
           mean_change == MeanChange(new_mean, pred_detector.reference_mean)
           result == [timestamp |-> timestamp,
                      ks_statistic |-> ks.ks_statistic,
                      p_value |-> ks.p_value,
                      reference_mean |-> pred_detector.reference_mean,
                      new_mean |-> new_mean,
                      mean_change_percentage |-> [mean_change EXCEPT !.num = @ * 100],
                      drift_detected |-> PredictionDriftDetected(ks.p_value, mean_change, threshold)]
       IN /\ pred_gauge' = <<mean_change>>
          /\ pred_last' = [op |-> "detect_prediction_drift", ret |-> "result",
                           threshold |-> threshold, result |-> <<result>>]
    /\ now' = timestamp
    /\ UNCHANGED <<engine_rest, ab_vars, perf_vars, mon_vars, threads, drift_vars, train_vars,
                   pred_detector, api_vars, dag_vars>>

InitPred ==
    /\ EngineIdle
    /\ IdleAB
    /\ IdlePerf
    /\ IdleMon
    /\ IdleConc
    /\ IdleTail

ConstructPred ==
    \E reference_predictions \in PredictionVectors :
        PredictionDriftDetectorInit(reference_predictions)

DetectPred ==
    \E new_predictions \in PredictionVectors, threshold \in MeanChangeThresholds,
       ks \in PredictionKSResults, t \in ClockReadings :
        DetectPredictionDrift(new_predictions, threshold, ks, t)

NextPred == ConstructPred \/ DetectPred

SpecPred == InitPred /\ [][NextPred]_vars

(***************************************************************************)
(* The serving process (src/scripts/inference_api.py).  load_models runs   *)
(* once, at startup; the requests follow in any order.  What S3 holds and  *)
(* how each download ends are inputs of load_models; what random.random()  *)
(* returns (in thousandths, 0 .. 999) and whether preprocessing or the     *)
(* estimator raises are inputs per customer of a batch request.            *)
(***************************************************************************)
api_base == <<engine_vars, ab_vars, perf_vars, mon_vars, threads, drift_vars, train_vars, pred_vars, api_env, dag_vars>>

StoredModelLists == {<< >>, <<"m1">>, <<"m1", "m2">>}
DownloadOutcomes == {"ok", "raise"}
ModelNameArgs == {"m1", "m2", "mX"}
SplitRatios == {0 - 1, 0, 500, 1000, 1001}
CustomerOutcomes == {[draw |-> 0, fault |-> "none"], [draw |-> 999, fault |-> "none"], [draw |-> 0, fault |-> "preprocess"], [draw |-> 0, fault |-> "predict"]}
EndpointFaults == {"none", "raise"}
ApiEnvironments == {[monitoring_available |-> TRUE, data_exists |-> TRUE, has_churn |-> TRUE], [monitoring_available |-> TRUE, data_exists |-> TRUE, has_churn |-> FALSE], [monitoring_available |-> TRUE, data_exists |-> FALSE, has_churn |-> FALSE], [monitoring_available |-> FALSE, data_exists |-> TRUE, has_churn |-> TRUE]}

Names(loaded) == {loaded[i] : i \in DOMAIN loaded}

\* The loop of lines 180-190: the stored models whose download succeeded.
RECURSIVE LoadedOf(_, _)
LoadedOf(stored, downloads) ==
    IF stored = << >> THEN << >>
    ELSE IF Head(downloads) = "ok" THEN <<Head(stored)>> \o LoadedOf(Tail(stored), Tail(downloads))
    ELSE LoadedOf(Tail(stored), Tail(downloads))

\* Lines 194-204.
ABTestSetup(cfg, model_names) ==
    IF Len(model_names) >= 2
    THEN [cfg EXCEPT !.model_a = model_names[1], !.model_b = model_names[2]]
    ELSE IF Len(model_names) = 1
    THEN [cfg EXCEPT !.model_a = model_names[1], !.model_b = model_names[1], !.enabled = FALSE]
    ELSE cfg

\* A monitoring configuration read at startup (no line of inference_api does this).
MonitoringConfigLoaded(m) == "config"

\* The global monitoring_config as load_models finds it at line 210.
MonitoringConfigAtLoad(m) == m.monitoring_config

\* Lines 206-236.
MonitoringSetup(m, env, has_preprocessor) ==
    IF env.monitoring_available /\ MonitoringConfigAtLoad(m) # NoneVal
    THEN [m EXCEPT !.performance_monitor = "ModelPerformanceMonitor",
                   !.ab_test_manager = "ABTestManager",
                   !.rollback_manager = "AutomatedRollbackManager",
                   !.drift_detector = IF env.data_exists /\ has_preprocessor /\ env.has_churn
                                      THEN "DataDriftDetector" ELSE @]
    ELSE m

LoadModels(preprocessor_download, listing, stored, downloads) ==
    /\ ~started
    /\ started' = TRUE
    /\ preprocessor' = (preprocessor_download = "ok")
    /\ models' = IF listing = "ok" THEN LoadedOf(stored, downloads) ELSE << >>
    /\ ab_test_config' = ABTestSetup(ab_test_config, models')
    /\ monitoring' = MonitoringSetup(monitoring, api_env, preprocessor')
    /\ api_last' = [NoRequest EXCEPT !.endpoint = "load_models"]
    /\ UNCHANGED api_base

\* select_model_for_ab_test; list(models.keys())[0] raises IndexError
\* without a loaded model.
SelectModelForABTest(cfg, loaded, draw) ==
    IF ~cfg.enabled \/ cfg.model_a = NoneVal
    THEN IF cfg.model_a # NoneVal THEN [raised |-> FALSE, name |-> cfg.model_a]
         ELSE IF loaded = << >> THEN [raised |-> TRUE, name |-> NoneVal]
         ELSE [raised |-> FALSE, name |-> loaded[1]]
    ELSE IF draw < cfg.traffic_split THEN [raised |-> FALSE, name |-> cfg.model_a]
    ELSE [raised |-> FALSE, name |-> cfg.model_b]

\* /models/switch rejecting only when neither model is loaded.
SwitchRejectedIfBoth(model_a, model_b, loaded) == model_a \notin Names(loaded) /\ model_b \notin Names(loaded)

SwitchRejected(model_a, model_b, loaded) == model_a \notin Names(loaded) \/ model_b \notin Names(loaded)

SwitchABModels(model_a, model_b) ==
    /\ started
    /\ IF SwitchRejected(model_a, model_b, models)
       THEN /\ api_last' = [endpoint |-> "/models/switch", status |-> 400, body |-> << >>,
                            request |-> <<model_a, model_b>>]
            /\ UNCHANGED ab_test_config
       ELSE /\ ab_test_config' = [ab_test_config EXCEPT !.model_a = model_a,
                                                        !.model_b = model_b,
                                                        !.enabled = TRUE]
            /\ api_last' = [endpoint |-> "/models/switch", status |-> 200,
                            body |-> <<ab_test_config'>>, request |-> <<model_a, model_b>>]
    /\ UNCHANGED <<api_base, started, models, preprocessor, monitoring>>

UpdateTrafficSplit(split_ratio) ==
    /\ started
    /\ IF ~(0 <= split_ratio /\ split_ratio <= 1000)
       THEN /\ api_last' = [endpoint |-> "/models/traffic-split", status |-> 400,
                            body |-> << >>, request |-> <<split_ratio>>]
            /\ UNCHANGED ab_test_config
       ELSE /\ ab_test_config' = [ab_test_config EXCEPT !.traffic_split = split_ratio]
            /\ api_last' = [endpoint |-> "/models/traffic-split", status |-> 200,
                            body |-> <<split_ratio>>, request |-> <<split_ratio>>]
    /\ UNCHANGED <<api_base, started, models, preprocessor, monitoring>>

\* A per-customer failure ending the whole batch.
AbortBatch(acc) == [acc EXCEPT !.raised = TRUE]

\* The inner except of predict_batch_churn: count the error and continue.
SkipCustomer(acc) == [acc EXCEPT !.errors = @ + 1]

\* The loop of predict_batch_churn from customer i on.
RECURSIVE BatchLoop(_, _, _)
BatchLoop(customers, i, acc) ==
    IF i > Len(customers) \/ acc.raised THEN acc
    ELSE LET selected == SelectModelForABTest(ab_test_config, models, customers[i].draw)
             failed == \/ selected.raised
                       \/ selected.name \notin Names(models)
                       \/ ~preprocessor
                       \/ customers[i].fault # "none"
         IN BatchLoop(customers, i + 1,
                IF failed THEN SkipCustomer(acc)
                ELSE [acc EXCEPT !.predictions = Append(@, [customer |-> i, model_version |-> selected.name])])

PredictBatchChurn(customers) ==
    /\ started
    /\ LET r == BatchLoop(customers, 1, [raised |-> FALSE, predictions |-> << >>, errors |-> 0])
       IN api_last' = IF r.raised
                      THEN [endpoint |-> "/predict/batch", status |-> 500, body |-> << >>,
                            request |-> customers]
                      ELSE [endpoint |-> "/predict/batch", status |-> 200,
                            body |-> <<[predictions |-> r.predictions,
                                        total_processed |-> Len(r.predictions),
                                        errors |-> r.errors]>>,
                            request |-> customers]
    /\ UNCHANGED <<api_base, started, models, preprocessor, ab_test_config, monitoring>>

MonitoringStatus ==
    /\ started
    /\ api_last' = [endpoint |-> "/monitoring/status", status |-> 200,
                    body |-> <<IF ~api_env.monitoring_available THEN "monitoring_unavailable"
                               ELSE IF monitoring.performance_monitor # NoneVal
                               THEN "monitoring_active" ELSE "monitoring_inactive">>,
                    request |-> << >>]
    /\ UNCHANGED <<api_base, started, models, preprocessor, ab_test_config, monitoring>>

\* The three monitoring endpoints: 503 without the component, else the body
\* of the try, 500 when it raises.
MonitoringEndpoint(endpoint, component, fault) ==
    /\ started
    /\ api_last' = [endpoint |-> endpoint,
                    status |-> IF ~api_env.monitoring_available \/ monitoring[component] = NoneVal
                               THEN 503 ELSE IF fault # "none" THEN 500 ELSE 200,
                    body |-> << >>, request |-> << >>]
    /\ UNCHANGED <<api_base, started, models, preprocessor, ab_test_config, monitoring>>

InitApi ==
    /\ EngineIdle
    /\ IdleAB
    /\ IdlePerf
    /\ IdleMon
    /\ IdleConc
    /\ IdleDrift
    /\ IdleTrain
    /\ IdlePred
    /\ IdleDag
    /\ api_env \in ApiEnvironments
    /\ ImportedApi

Startup ==
    \E preprocessor_download \in DownloadOutcomes, listing \in DownloadOutcomes,
       stored \in StoredModelLists :
        \E downloads \in [DOMAIN stored -> DownloadOutcomes] :
            LoadModels(preprocessor_download, listing, stored, downloads)

Switch == \E model_a \in ModelNameArgs, model_b \in ModelNameArgs : SwitchABModels(model_a, model_b)

TrafficSplit == \E split_ratio \in SplitRatios : UpdateTrafficSplit(split_ratio)

PredictBatch ==
    \E n \in 0 .. MaxBatch :
        \E customers \in [1 .. n -> CustomerOutcomes] : PredictBatchChurn(customers)

Status == MonitoringStatus

DriftCheck == \E fault \in EndpointFaults : MonitoringEndpoint("/monitoring/drift/check", "drift_detector", fault)

PerformanceMetrics == \E fault \in EndpointFaults : MonitoringEndpoint("/monitoring/performance", "performance_monitor", fault)

RollbackCheck == \E fault \in EndpointFaults : MonitoringEndpoint("/monitoring/rollback/check", "rollback_manager", fault)

NextApi ==
    \/ Startup
    \/ Switch
    \/ TrafficSplit
    \/ PredictBatch
    \/ Status
    \/ DriftCheck
    \/ PerformanceMetrics
    \/ RollbackCheck

SpecApi == InitApi /\ [][NextApi]_vars

(***************************************************************************)
(* The training DAG churn_prediction_training_pipeline.  One run at a time *)
(* (max_active_runs=1); the scheduler runs a task once its trigger rule is *)
(* met, gives a task that raised one more try (retries=1) and marks a task *)
(* whose upstream failed upstream_failed.  What a callable does to files   *)
(* outside /opt/airflow/models and what training computes are inputs: a    *)
(* fault and the best score.  A model version is the number of the run     *)
(* that trained it; 0 is what production held before the first run.        *)
(***************************************************************************)
Retries == 1
MaxDagRuns == 2

DagConfigs == {[performance_threshold |-> 800], [performance_threshold |-> 850]}
TrainedScores == {750, 800, 900}
TaskFaults == {"none", "raise"}
DeployFaults == {"none", "copy", "write"}
CleanupFaults == {"none", "remove"}

UpstreamTasks == {"validate_data_quality", "preprocess_data", "train_models", "evaluate_model", "deploy_model"}

\* Lines 317-322.
Upstream(task_id) ==
    CASE task_id = "validate_data_quality" -> {}
      [] task_id = "preprocess_data" -> {"validate_data_quality"}
      [] task_id = "train_models" -> {"preprocess_data"}
      [] task_id = "evaluate_model" -> {"train_models"}
      [] task_id = "deploy_model" -> {"evaluate_model"}
      [] task_id = "cleanup_temp_files" -> UpstreamTasks

Final(state) == state \in {"success", "failed", "upstream_failed"}

\* The trigger rule of an operator that names none.
DefaultTriggerRule(task_id) == "all_success"

TriggerRule(task_id) == IF task_id = "cleanup_temp_files" THEN "all_done" ELSE "all_success"

Ready(task_id) ==
    IF TriggerRule(task_id) = "all_done"
    THEN \A u \in Upstream(task_id) : Final(task_instances[u].state)
    ELSE \A u \in Upstream(task_id) : task_instances[u].state = "success"

Blocked(task_id) ==
    /\ TriggerRule(task_id) = "all_success"
    /\ \E u \in Upstream(task_id) : task_instances[u].state \in {"failed", "upstream_failed"}

Runnable(task_id) ==
    /\ task_instances[task_id].state \in {"none", "up_for_retry"}
    /\ Ready(task_id)

\* The try of task_id ends: success when the callable returned (whatever it
\* returned), up_for_retry or failed when it raised.
Finish(task_id, raised, fault) ==
    LET tries == task_instances[task_id].try_number + 1
    IN /\ task_instances' =
              [task_instances EXCEPT ![task_id] =
                  [state |-> IF ~raised THEN "success"
                             ELSE IF tries <= Retries THEN "up_for_retry" ELSE "failed",
                   try_number |-> tries]]
       /\ succeeded' = IF raised THEN succeeded ELSE Append(succeeded, task_id)
       /\ dag_last' = [task_id |-> task_id,
                       outcome |-> IF raised THEN "raised" ELSE "returned",
                       fault |-> fault]

dag_base == <<engine_vars, ab_vars, perf_vars, mon_vars, threads, drift_vars, train_vars, pred_vars, api_vars>>

ValidateDataQuality(fault) ==
    /\ Runnable("validate_data_quality")
    /\ Finish("validate_data_quality", fault # "none", fault)
    /\ UNCHANGED <<dag_base, dag_config, dag_run, xcom, deployed>>

PreprocessData(fault) ==
    /\ Runnable("preprocess_data")
    /\ Finish("preprocess_data", fault # "none", fault)
    /\ UNCHANGED <<dag_base, dag_config, dag_run, xcom, deployed>>

\* The train_models task: the XCom values are pushed after training, saving
\* and registering, just before it returns.
TaskTrainModels(fault, best_score) ==
    /\ Runnable("train_models")
    /\ Finish("train_models", fault # "none", fault)
    /\ xcom' = IF fault # "none" THEN xcom
               ELSE Put(Put(xcom, "best_model_score", best_score), "model_version", dag_run)
    /\ UNCHANGED <<dag_base, dag_config, dag_run, deployed>>

\* An evaluation that lets every model through.
EvaluationPassedAlways(best_model_score, threshold) == TRUE

\* best_model_score >= threshold
EvaluationPassed(best_model_score, threshold) == best_model_score >= threshold

\* evaluate_model_performance: pushes deploy_model and returns it; the task
\* succeeds on either value.
TaskEvaluateModel(fault) ==
    /\ Runnable("evaluate_model")
    /\ Finish("evaluate_model", fault # "none", fault)
    /\ xcom' = IF fault # "none" THEN xcom
               ELSE Put(xcom, "deploy_model",
                        EvaluationPassed(xcom["best_model_score"], dag_config.performance_threshold))
    /\ UNCHANGED <<dag_base, dag_config, dag_run, deployed>>

\* deploy_model: returns False without deploy_model set; else copies the model
\* (fault "copy": shutil.copy2 raises) and then writes the version file
\* (fault "write": open raises).
DeployModel(fault) ==
    /\ Runnable("deploy_model")
    /\ IF ~Get(xcom, "deploy_model", FALSE)
       THEN /\ Finish("deploy_model", FALSE, "none")
            /\ UNCHANGED deployed
       ELSE /\ Finish("deploy_model", fault # "none", fault)
            /\ deployed' =
                   [production_model |-> IF fault = "copy" THEN deployed.production_model
                                         ELSE xcom["model_version"],
                    production_version |-> IF fault = "none" THEN xcom["model_version"]
                                           ELSE deployed.production_version]
    /\ UNCHANGED <<dag_base, dag_config, dag_run, xcom>>

\* cleanup_temp_files returns True from the try and from the except.
CleanupTempFiles(fault) ==
    /\ Runnable("cleanup_temp_files")
    /\ Finish("cleanup_temp_files", FALSE, fault)
    /\ UNCHANGED <<dag_base, dag_config, dag_run, xcom, deployed>>

\* The scheduler gives up a task whose trigger rule can no longer be met.
MarkUpstreamFailed(task_id) ==
    /\ task_instances[task_id].state = "none"
    /\ Blocked(task_id)
    /\ task_instances' = [task_instances EXCEPT ![task_id].state = "upstream_failed"]
    /\ UNCHANGED <<dag_base, dag_config, dag_run, xcom, succeeded, deployed, dag_last>>

\* The next scheduled run starts once the run before it has finished.
StartDagRun ==
    /\ \A t \in TaskIds : Final(task_instances[t].state)
    /\ dag_run < MaxDagRuns
    /\ dag_run' = dag_run + 1
    /\ task_instances' = [t \in TaskIds |-> [state |-> "none", try_number |-> 0]]
    /\ xcom' = EmptyDict
    /\ succeeded' = << >>
    /\ dag_last' = NoTaskRun
    /\ UNCHANGED <<dag_base, dag_config, deployed>>

InitDag ==
    /\ EngineIdle
    /\ IdleAB
    /\ IdlePerf
    /\ IdleMon
    /\ IdleConc
    /\ IdleDrift
    /\ IdleTrain
    /\ IdlePred
    /\ IdleApi
    /\ dag_config \in DagConfigs
    /\ dag_run = 1
    /\ FreshRun
    /\ deployed = [production_model |-> 0, production_version |-> 0]

RunValidate == \E fault \in TaskFaults : ValidateDataQuality(fault)

RunPreprocess == \E fault \in TaskFaults : PreprocessData(fault)

RunTrain == \E fault \in TaskFaults, best_score \in TrainedScores : TaskTrainModels(fault, best_score)

RunEvaluate == \E fault \in TaskFaults : TaskEvaluateModel(fault)

RunDeploy == \E fault \in DeployFaults : DeployModel(fault)

RunCleanup == \E fault \in CleanupFaults : CleanupTempFiles(fault)

ScheduleUpstreamFailed == \E task_id \in TaskIds : MarkUpstreamFailed(task_id)

RunStep ==
    \/ RunValidate
    \/ RunPreprocess
    \/ RunTrain
    \/ RunEvaluate
    \/ RunDeploy
    \/ RunCleanup
    \/ ScheduleUpstreamFailed

NextDag == RunStep \/ StartDagRun

SpecDag == InitDag /\ [][NextDag]_vars

\* The scheduler keeps scheduling: a task that can run is run and its
\* callable returns or raises.  Whether another run is ever started is left
\* open.
SpecDagLive == InitDag /\ [][NextDag]_vars /\ WF_vars(RunStep)

(***************************************************************************)
(* Properties.                                                             *)
(***************************************************************************)
LastDecision == last.decision[1]

CheckReturned == last.op = "check_rollback_conditions" /\ last.ret = "returned"

\* C1: whenever execute_rollback returns false (whichever step failed),
\* rollback_history and the rollback counter are as they were before the call.
C1_FalseLeavesHistoryAndCounter ==
    [][(last'.op = "execute_rollback" /\ last'.ret = "false")
          => (rollback_history' = rollback_history
              /\ rollback_counter' = rollback_counter)]_vars

\* C2: execute_rollback never ends by raising: every failure inside it is
\* surfaced as the return value false.
C2_ExecuteNeverRaises ==
    last.op = "execute_rollback" => last.ret \in {"true", "false"}

\* C3: in every decision check_rollback_conditions returns, should_rollback is
\* true iff performance_check is true or ab_test_check is true.
C3_ShouldRollbackIsOr ==
    CheckReturned =>
        (LastDecision.should_rollback
            <=> (LastDecision.performance_check \/ LastDecision.ab_test_check))

\* A decision that asks for a rollback on the A/B check alone.
C3_Witness ==
    /\ CheckReturned
    /\ LastDecision.should_rollback
    /\ ~LastDecision.performance_check
    /\ LastDecision.ab_test_check

\* The degradation check as C4 states it, against a threshold t in thousandths:
\* baseline.roc_auc > 0 and (baseline.roc_auc - current.roc_auc) / baseline.roc_auc > t.
DegradedAgainst(current, baseline, t) ==
    LET c == Get(current, "roc_auc", 0)
        b == Get(baseline, "roc_auc", 0)
    IN  b > 0 /\ (b - c) * 1000 > t * b

\* C4: the performance_check of check_rollback_conditions is the degradation
\* check against the configured monitoring.performance_threshold.
C4_CheckUsesConfiguredThreshold ==
    [][\A current \in CurrentDicts, baseline \in BaselineDicts,
          ab \in ABResultInputs, t \in 0 .. MaxClock :
          (/\ "performance_threshold" \in DOMAIN config
           /\ CheckRollbackConditions(current, baseline, ab, t))
          => (last'.decision[1].performance_check
                 <=> DegradedAgainst(current, baseline, config.performance_threshold))]_vars

\* C5: a check_rollback_conditions call leaves rollback_history, the rollback
\* counter and the production pointer as they were; only execute_rollback
\* changes any of them.
C5_CheckChangesNothing ==
    [][/\ last'.op = "check_rollback_conditions"
            => UNCHANGED <<rollback_history, rollback_counter, prod>>
       /\ (~UNCHANGED <<rollback_history, rollback_counter, prod>>)
            => last'.op = "execute_rollback"]_vars

\* A check that asked for a rollback, made on an engine that rolled back before.
C5_Witness ==
    /\ CheckReturned
    /\ LastDecision.should_rollback
    /\ Len(rollback_history) = 1
    /\ rollback_counter = 1
    /\ prod \in StoredKeys

EffectsWithoutLog(effects) == SelectSeq(effects, LAMBDA x : x # "log")

\* C6: a successful execute_rollback swaps the production pointer, appends
\* exactly one history entry, increments the counter by one and alerts, in
\* that order, and returns true; in no call does a history entry, a counter
\* increment or an alert come before the pointer swap has succeeded.
C6_EffectsInOrder ==
    [][last'.op = "execute_rollback" =>
         /\ last'.ret = "true" =>
              /\ EffectsWithoutLog(last'.effects) = <<"copy", "append", "inc", "alert">>
              /\ prod' \in StoredKeys
              /\ Len(rollback_history') = Len(rollback_history) + 1
              /\ rollback_history'[Len(rollback_history')].previous_model_s3_path.key = prod'
              /\ rollback_counter' = rollback_counter + 1
              /\ alerts' = alerts + 1
         /\ \A i \in DOMAIN last'.effects :
              last'.effects[i] \in {"append", "inc", "alert"}
                 => \E j \in 1 .. (i - 1) : last'.effects[j] = "copy"
         /\ (\A i \in DOMAIN last'.effects : last'.effects[i] # "copy")
              => UNCHANGED <<prod, rollback_history, rollback_counter, alerts>>]_vars

\* The second successful rollback of an engine.
C6_Witness ==
    /\ last.op = "execute_rollback"
    /\ last.ret = "true"
    /\ Len(rollback_history) = 2
    /\ rollback_counter = 2
    /\ alerts = 2

\* C7: the engine enters RolledBack only by execute_rollback from Flagged
\* (a check returned should_rollback = true before), never directly from
\* Healthy, and nothing leads from RolledBack back.
C7_RolledBackOnlyFromFlagged ==
    [][/\ (engine_state' = "RolledBack" /\ engine_state # "RolledBack")
            => (engine_state = "Flagged" /\ last'.op = "execute_rollback")
       /\ engine_state = "RolledBack" => engine_state' = "RolledBack"]_vars

\* C8: rollback_history is append-only: its length never decreases, the entries
\* it holds stay as and where they are, and a new entry goes to the end.
C8_HistoryAppendOnly ==
    [][/\ Len(rollback_history') >= Len(rollback_history)
       /\ SubSeq(rollback_history', 1, Len(rollback_history)) = rollback_history]_vars

\* A history of two different entries.
C8_Witness ==
    /\ Len(rollback_history) = 2
    /\ rollback_history[1] # rollback_history[2]

\* C9: whatever the metric dicts, roc_auc absent or not, the recommendation of
\* analyze_ab_test is deploy_model_b, rollback_to_model_a or continue_testing.
C9_RecommendationInClosedSet ==
    ab_result # << >> => ab_result[1].recommendation \in Recommendations

\* improvement_pct = (b - a) / a * 100, 0 when a <= 0, compared with n.
ImprovementAbove(a, b, n) == IF a > 0 THEN (b - a) * 100 > n * a ELSE 0 > n
ImprovementBelow(a, b, n) == IF a > 0 THEN (b - a) * 100 < n * a ELSE 0 < n

\* The recommendation as C10 states it, from the two roc_auc scores.
StatedRecommendation(a, b) ==
    IF b > a /\ ImprovementAbove(a, b, 2)
    THEN "deploy_model_b"
    ELSE IF ImprovementBelow(a, b, -5)
         THEN "rollback_to_model_a"
         ELSE "continue_testing"

RocInBoth == "roc_auc" \in (DOMAIN ab_args[1]) \cap (DOMAIN ab_args[2])

\* C10: with roc_auc in both dicts, the recommendation is deploy_model_b iff b
\* is better and the improvement is above 2.0, else rollback_to_model_a iff the
\* improvement is below -5.0, else continue_testing; the other four metrics,
\* which are not read by the statement, never change it.
C10_RecommendationFromRocAuc ==
    (ab_result # << >> /\ RocInBoth) =>
        ab_result[1].recommendation
            = StatedRecommendation(ab_args[1]["roc_auc"], ab_args[2]["roc_auc"])

\* An improvement of exactly 2.0 that is left at continue_testing, while
\* accuracy says model B is far better.
C10_Witness ==
    /\ ab_result # << >>
    /\ RocInBoth
    /\ ab_args[1]["roc_auc"] = 400
    /\ ab_args[2]["roc_auc"] = 408
    /\ "accuracy" \in (DOMAIN ab_args[1]) \cap (DOMAIN ab_args[2])
    /\ ab_args[1]["accuracy"] < ab_args[2]["accuracy"]
    /\ ab_result[1].recommendation = "continue_testing"

\* C11 as stated: check_performance_degradation returns true iff
\* baseline.roc_auc > 0 and (baseline.roc_auc - current.roc_auc) /
\* baseline.roc_auc > threshold, and false whenever baseline.roc_auc <= 0 or is
\* missing.
C11_TrueIffBaselinePositiveAndDrop ==
    perf_result # << >> =>
        (perf_result[1] <=> DegradedAgainst(perf_args[1], perf_args[2], perf_args[3]))

\* The degradation fraction compared with a threshold t in thousandths: the
\* relative drop of roc_auc when baseline.roc_auc > 0, and 0 otherwise.
FractionAbove(current, baseline, t) ==
    LET c == Get(current, "roc_auc", 0)
        b == Get(baseline, "roc_auc", 0)
    IN  IF b > 0 THEN (b - c) * 1000 > t * b ELSE 0 > t

\* C11, amended: check_performance_degradation returns true iff the degradation
\* fraction is strictly above the threshold, the fraction being 0 when
\* baseline.roc_auc <= 0 or is missing; so with a threshold >= 0 it returns
\* false there, and true iff baseline.roc_auc > 0 and the relative drop is
\* above the threshold.  Only roc_auc is read.
C11_TrueIffFractionAboveThreshold ==
    perf_result # << >> =>
        /\ perf_result[1] <=> FractionAbove(perf_args[1], perf_args[2], perf_args[3])
        /\ perf_args[3] >= 0 =>
              (perf_result[1]
                  <=> DegradedAgainst(perf_args[1], perf_args[2], perf_args[3]))

\* A drop of exactly 5% against the threshold 0.05, with accuracy far lower:
\* not degraded.
C11_Witness ==
    /\ perf_result = <<FALSE>>
    /\ perf_args[3] = 50
    /\ DOMAIN perf_args[1] = {"roc_auc", "accuracy"}
    /\ DOMAIN perf_args[2] = {"roc_auc", "accuracy"}
    /\ perf_args[1]["roc_auc"] = 380
    /\ perf_args[2]["roc_auc"] = 400
    /\ perf_args[1]["accuracy"] < perf_args[2]["accuracy"]

\* C12: the ab_test_check of check_rollback_conditions is true iff A/B results
\* were supplied and their recommendation is rollback_to_model_a; no results,
\* deploy_model_b and continue_testing never set it.
C12_ABCheckIffRollbackRecommended ==
    [][\A current \in CurrentDicts, baseline \in BaselineDicts,
          ab \in ABResultInputs, t \in 0 .. MaxClock :
          (/\ "performance_threshold" \in DOMAIN config
           /\ CheckRollbackConditions(current, baseline, ab, t))
          => (last'.decision[1].ab_test_check
                 <=> (ab.kind = "results"
                      /\ ab.recommendation = "rollback_to_model_a"))]_vars

\* A decision with both checks set: the A/B check was set next to the
\* performance check.
C12_Witness ==
    /\ CheckReturned
    /\ LastDecision.ab_test_check
    /\ LastDecision.reasons =
           <<"Performance degradation detected",
             "A/B test indicates model B is significantly worse">>

\* Timestamps non-decreasing in list order.
TimeOrdered(history, stamp(_)) ==
    \A i, j \in DOMAIN history : i < j => stamp(history[i]) <= stamp(history[j])

RecordStamp(r) == r.timestamp

\* C13: the performance history is append-only and time-ordered: records stay
\* as and where they are, a successful evaluate_model_performance adds exactly
\* one record at the end, check_performance_degradation adds none, and the
\* timestamps are non-decreasing in list order.
C13_PerformanceHistoryAppendOnly ==
    [][/\ Len(performance_history') >= Len(performance_history)
       /\ SubSeq(performance_history', 1, Len(performance_history))
              = performance_history
       /\ (mon_last'.op = "evaluate_model_performance" /\ mon_last'.ret = "returned")
              => Len(performance_history') = Len(performance_history) + 1
       /\ mon_last'.op = "check_performance_degradation"
              => performance_history' = performance_history
       /\ TimeOrdered(performance_history', RecordStamp)]_vars

\* A degradation check made after two evaluations at different times.
C13_Witness ==
    /\ mon_last.op = "check_performance_degradation"
    /\ Len(performance_history) = 2
    /\ performance_history[1].timestamp < performance_history[2].timestamp

RollbackStamp(r) == r.rollback_timestamp

Completed(op) == {t \in Threads : threads[t].op = op /\ threads[t].pc = "done"}

\* C14: with evaluate_model_performance and execute_rollback called from
\* several threads, under every interleaving each history holds exactly one
\* record per completed call and is in timestamp order.
C14_OneRecordPerCallInTimeOrder ==
    /\ Len(performance_history) = Cardinality(Completed("evaluate_model_performance"))
    /\ Len(rollback_history) = Cardinality(Completed("execute_rollback"))
    /\ TimeOrdered(performance_history, RecordStamp)
    /\ TimeOrdered(rollback_history, RollbackStamp)

DriftCall(op) == drift_last'.op = op

MatchingShape(call) == call.cols = call.names /\ call.rows >= 1

\* C15: constructing a DataDriftDetector from a reference matrix whose column
\* count differs from the number of feature names, or that has no rows,
\* fails with a ConfigurationError and produces no detector.
C15_ConstructionValidatesInputs ==
    [][(DriftCall("__init__") /\ ~MatchingShape(drift_last')) =>
          (drift_last'.ret = "ConfigurationError" /\ ~detector'.constructed)]_vars

\* C16: a detect_drift call on a new matrix whose column count differs from
\* the number of feature names is rejected and computes no per-feature
\* statistic (no report, no gauge written).
C16_DetectDriftValidatesColumns ==
    [][(DriftCall("detect_drift") /\ drift_last'.cols # drift_last'.names) =>
          (drift_last'.ret # "report" /\ drift_gauge' = drift_gauge)]_vars

PsiFailed(call) == {i \in DOMAIN call.numerics : call.numerics[i].psi.raises}

FeatureSet(det) == {det.feature_names[i] : i \in DOMAIN det.feature_names}

\* C17: when the PSI computation fails for a feature of a detect_drift call
\* on a matrix with rows and with a column for every feature, the call
\* returns a report that has an entry for every feature, with psi_score 0
\* for the features whose PSI computation failed.
C17_PsiFailureDoesNotAbort ==
    [][(/\ DriftCall("detect_drift")
        /\ drift_last'.rows >= 1
        /\ drift_last'.cols >= drift_last'.names
        /\ PsiFailed(drift_last') # {}) =>
          (/\ drift_last'.ret = "report"
           /\ DOMAIN drift_last'.entries = FeatureSet(detector)
           /\ \A i \in PsiFailed(drift_last') :
                  drift_last'.entries[detector.feature_names[i]].psi_score = 0)]_vars

C17_Witness ==
    /\ drift_last.op = "detect_drift"
    /\ drift_last.ret = "report"
    /\ Cardinality(DOMAIN drift_last.entries) = 2
    /\ Cardinality(PsiFailed(drift_last)) = 1
    /\ drift_last.warnings # {}

PsiReturned(outcome) == IF outcome.raises THEN 0 ELSE outcome.value

\* C18: in every report, the entry of each feature carries the p-value and
\* the PSI computed for that feature's column, and its drift_detected is
\* true iff that p_value < threshold or that psi_score > 0.1, both strict.
C18_DriftDetectedIsOr ==
    [][(DriftCall("detect_drift") /\ drift_last'.ret = "report") =>
          \A i \in DOMAIN detector.feature_names :
              LET e == drift_last'.entries[detector.feature_names[i]]
                  x == drift_last'.numerics[i]
              IN /\ e.p_value = x.ks.p_value
                 /\ e.psi_score = PsiReturned(x.psi)
                 /\ e.drift_detected <=>
                        (x.ks.p_value < drift_last'.threshold \/ PsiReturned(x.psi) > PsiLimit)]_vars

\* One feature flagged by its PSI alone, the other not flagged with its
\* p-value on the threshold and its PSI on 0.1.
C18_Witness ==
    /\ drift_last.op = "detect_drift"
    /\ drift_last.ret = "report"
    /\ drift_last.names = 2
    /\ LET e1 == drift_last.entries["f1"]
           e2 == drift_last.entries["f2"]
       IN /\ e1.drift_detected /\ e1.p_value >= drift_last.threshold /\ e1.psi_score > PsiLimit
          /\ ~e2.drift_detected /\ e2.p_value = drift_last.threshold /\ e2.psi_score = PsiLimit

\* C19: a detect_drift call leaves reference_data, feature_names and
\* reference_stats of the detector as they were at construction, and the
\* report it returns is a mapping that no earlier call created.
C19_SnapshotImmutableReportsFresh ==
    [][DriftCall("detect_drift") =>
          (/\ detector' = detector
           /\ drift_last'.ret = "report" => drift_last'.report_id \notin report_ids)]_vars

C19_Witness ==
    /\ drift_last.op = "detect_drift"
    /\ drift_last.ret = "report"
    /\ drift_last.names = 2
    /\ drift_last.report_id = 2
    /\ Cardinality(report_ids) = 2

\* C20: a train_models call in which at least one estimator trained and
\* evaluated successfully (it has an entry in the results) returns normally
\* and leaves best_model set to a trained estimator.
C20_PartialFailureTolerated ==
    [][(train_last'.op = "train_models" /\ DOMAIN train_last'.results # {}) =>
          (train_last'.ret = "results" /\ trainer'.best_model # NoModel)]_vars

TrainCall == train_last'.op = "train_models"

BestOf(t) == <<t.best_model, t.best_model_name, t.best_score, t.best_run_id>>

\* C21: a train_models call in which no estimator was trained successfully
\* (every configured one failed, or none is configured) raises, and leaves
\* best_model, best_model_name, best_score and best_run_id as they were
\* before the call.
C21_AllFailedIsFatal ==
    [][(TrainCall /\ DOMAIN train_last'.results = {}) =>
          (train_last'.ret # "results" /\ BestOf(trainer') = BestOf(trainer))]_vars

\* Both configured estimators failed, on a trainer that holds a best model
\* of an earlier call.
C21_Witness ==
    /\ train_last.op = "train_models"
    /\ train_last.ret = "RuntimeError"
    /\ Len(train_last.errors) = 2
    /\ DOMAIN train_last.results = {}
    /\ trainer.best_model # NoModel

MaxTestScore(results) == CHOOSE x \in {results[n].test_score : n \in DOMAIN results} : \A n \in DOMAIN results : results[n].test_score <= x

\* The first model, in configuration order, whose result has the highest test score.
FirstBest(results, order) == order[CHOOSE i \in DOMAIN order : /\ order[i] \in DOMAIN results /\ results[order[i]].test_score = MaxTestScore(results) /\ \A j \in 1 .. i - 1 : order[j] \in DOMAIN results => results[order[j]].test_score < MaxTestScore(results)]

FreshTrainer == train_last.op \in {"__init__", "create_models"}

\* C22: the first train_models call on a freshly constructed trainer in
\* which some candidate was trained successfully leaves as best_model the
\* candidate with the highest test score, the first in configuration order
\* among equals.
C22_BestIsFirstHighestScore ==
    [][(FreshTrainer /\ TrainCall /\ DOMAIN train_last'.results # {}) =>
          LET best == FirstBest(train_last'.results, trainer.models)
          IN /\ trainer'.best_model_name = best
             /\ trainer'.best_model = train_last'.results[best].model]_vars

\* C23: no tracker failure makes construction, train_models or
\* register_model_with_mlflow raise.
C23_TrackerFailuresNeverFatal ==
    [][train_last'.op \in {"__init__", "train_models", "register_model_with_mlflow"} =>
          train_last'.ret # "MlflowException"]_vars

\* C25: after every train_models call that returns normally,
\* best_model_name is a key of the returned results, best_score is the
\* highest test_score in them and best_run_id is the run id of that entry.
C25_BestComesFromThisCall ==
    [][(TrainCall /\ train_last'.ret = "results") =>
          (/\ trainer'.best_model_name \in DOMAIN train_last'.results
           /\ trainer'.best_score = MaxTestScore(train_last'.results)
           /\ trainer'.best_run_id = train_last'.results[trainer'.best_model_name].run_id)]_vars

PredResult == pred_last.result[1]

PredDetected == pred_last.op = "detect_prediction_drift"

\* |new_mean - ref_mean| / ref_mean > threshold as a comparison of exact
\* rationals, for ref_mean # 0.
RelativeShiftExceeds(new_mean, ref_mean, threshold) == LET shift == Abs(new_mean.num * ref_mean.den - ref_mean.num * new_mean.den) IN IF ref_mean.num > 0 THEN shift * 1000 > threshold * new_mean.den * ref_mean.num ELSE shift * 1000 < threshold * new_mean.den * ref_mean.num

\* C24 as stated: drift_detected is true iff p_value < 0.05 or
\* |new_mean - ref_mean| / ref_mean exceeds the threshold argument (wherever
\* that quotient is defined).
C24_DetectedIffPValueOrRelativeShift ==
    (PredDetected /\ PredResult.reference_mean.num # 0) =>
        (PredResult.drift_detected <=>
            (PredResult.p_value < PValueCutoff
             \/ RelativeShiftExceeds(PredResult.new_mean, PredResult.reference_mean, pred_last.threshold)))

\* C24, amended: drift_detected is true iff p_value < 0.05, whatever the
\* threshold argument, or the mean change exceeds the threshold argument,
\* the mean change being |new_mean - ref_mean| / ref_mean when ref_mean > 0
\* and 0 when ref_mean <= 0.
C24_DetectedIffPValueOrMeanChange ==
    PredDetected =>
        (PredResult.drift_detected <=>
            (PredResult.p_value < PValueCutoff
             \/ IF PredResult.reference_mean.num > 0
                THEN RelativeShiftExceeds(PredResult.new_mean, PredResult.reference_mean, pred_last.threshold)
                ELSE 0 > pred_last.threshold))

\* Drift reported on the mean shift alone, and a shift of exactly the
\* default threshold not reported.
C24_Witness ==
    /\ PredDetected
    /\ PredResult.p_value >= PValueCutoff
    /\ PredResult.reference_mean.num > 0
    /\ pred_last.threshold = DefaultMeanChangeThreshold
    /\ PredResult.drift_detected
    /\ PredResult.new_mean = Mean(<<560>>)

Loaded(name) == name \in Names(models)

Draws == {0, 499, 500, 999}

\* C26: once load_models has loaded at least one model, after every
\* /models/switch and /models/traffic-split request model_a and model_b are
\* loaded models, traffic_split is within [0, 1] and
\* select_model_for_ab_test returns a loaded model for every random draw; a
\* request answered with 400 leaves ab_test_config as it was.
C26_ABConfigNamesLoadedModels ==
    [][(started' /\ models' # << >>) =>
          (/\ Loaded(ab_test_config.model_a)' /\ Loaded(ab_test_config.model_b)'
           /\ 0 <= ab_test_config'.traffic_split /\ ab_test_config'.traffic_split <= 1000
           /\ \A draw \in Draws :
                  LET selected == SelectModelForABTest(ab_test_config', models', draw)
                  IN ~selected.raised /\ selected.name \in Names(models')
           /\ api_last'.status = 400 => ab_test_config' = ab_test_config)]_vars

\* A rejected request after an accepted switch and an accepted split.
C26_Witness ==
    /\ started
    /\ api_last.status = 400
    /\ api_last.endpoint = "/models/switch"
    /\ ab_test_config.model_a = "m2"
    /\ ab_test_config.model_b = "m1"
    /\ ab_test_config.traffic_split = 1000
    /\ ab_test_config.enabled

BatchCall == api_last'.endpoint = "/predict/batch"

RECURSIVE Succeeded(_, _)
Succeeded(customers, i) ==
    IF i > Len(customers) THEN << >>
    ELSE (IF customers[i].fault = "none" THEN <<i>> ELSE << >>) \o Succeeded(customers, i + 1)

\* C29: a batch request is answered with status 200 and one prediction for
\* each customer for whom selection, preprocessing and prediction succeeded,
\* in request order (none when no model or no preprocessor is loaded);
\* total_processed is the number of predictions, at most the number of
\* customers.
C29_BatchIsolatesFailures ==
    [][BatchCall =>
          LET customers == api_last'.request
              expected == IF preprocessor /\ models # << >> THEN Succeeded(customers, 1) ELSE << >>
              body == api_last'.body[1]
          IN /\ api_last'.status = 200
             /\ [k \in DOMAIN body.predictions |-> body.predictions[k].customer] = expected
             /\ \A k \in DOMAIN body.predictions : Loaded(body.predictions[k].model_version)
             /\ body.total_processed = Len(body.predictions)
             /\ body.total_processed <= Len(customers)]_vars

\* The first customer fails, the second is predicted.
C29_Witness ==
    /\ api_last.endpoint = "/predict/batch"
    /\ api_last.status = 200
    /\ Len(api_last.request) = 2
    /\ api_last.request[1].fault = "predict"
    /\ api_last.body[1].total_processed = 1
    /\ api_last.body[1].predictions[1].customer = 2
    /\ api_last.body[1].errors = 1

MonitoringEndpoints == {"/monitoring/drift/check", "/monitoring/performance", "/monitoring/rollback/check"}

\* C30: monitoring_config is never assigned; once load_models has run,
\* performance_monitor, ab_test_manager, rollback_manager and drift_detector
\* are unset, /monitoring/status does not report monitoring_active and the
\* three monitoring endpoints answer 503.
C30_MonitoringNeverActive ==
    /\ monitoring.monitoring_config = NoneVal
    /\ started =>
          (/\ monitoring = InitialMonitoring
           /\ api_last.endpoint = "/monitoring/status" => api_last.body[1] # "monitoring_active"
           /\ api_last.endpoint \in MonitoringEndpoints => api_last.status = 503)

\* The drift check refused although the module, a model, the preprocessor
\* and the reference data with its target column are all there.
C30_Witness ==
    /\ started
    /\ api_env = [monitoring_available |-> TRUE, data_exists |-> TRUE, has_churn |-> TRUE]
    /\ preprocessor
    /\ Len(models) = 2
    /\ api_last.endpoint = "/monitoring/drift/check"
    /\ api_last.status = 503

TaskState(task_id) == task_instances[task_id].state

TrainingChain == <<"validate_data_quality", "preprocess_data", "train_models", "evaluate_model">>

ScoreBelowThreshold == "best_model_score" \in DOMAIN xcom /\ xcom["best_model_score"] < dag_config.performance_threshold

UpstreamFailed == \E i \in 1 .. 4 : TaskState(TrainingChain[i]) \in {"failed", "upstream_failed"}

\* C27: the production model file or the version file changes only in a try
\* of deploy_model made after validate_data_quality, preprocess_data,
\* train_models and evaluate_model succeeded in that order with
\* best_model_score >= monitoring.performance_threshold; with the score
\* below the threshold, or an upstream task failed, both files stay as they
\* were.
C27_DeployOnlyAfterPassedEvaluation ==
    [][/\ deployed' # deployed =>
             (/\ \A i \in 1 .. 4 : TaskState(TrainingChain[i]) = "success"
              /\ succeeded = TrainingChain
              /\ xcom["best_model_score"] >= dag_config.performance_threshold
              /\ dag_last'.task_id = "deploy_model"
              /\ task_instances'["deploy_model"].try_number = task_instances["deploy_model"].try_number + 1)
       /\ (ScoreBelowThreshold \/ UpstreamFailed) => deployed' = deployed]_vars

\* The second run deployed its model over the one the first run deployed.
C27_Witness ==
    /\ dag_run = 2
    /\ TaskState("deploy_model") = "success"
    /\ deployed = [production_model |-> 2, production_version |-> 2]
    /\ xcom["best_model_score"] = dag_config.performance_threshold

\* C28: in every run cleanup_temp_files eventually runs and succeeds; it is
\* not tried before validate, preprocess, train, evaluate and deploy have
\* all reached a final state, whatever those states are, and it never
\* fails, also when removing a file fails.
C28_CleanupAlwaysRuns ==
    /\ \A r \in 1 .. MaxDagRuns :
           (dag_run = r) ~> (dag_run = r /\ TaskState("cleanup_temp_files") = "success")
    /\ [](task_instances["cleanup_temp_files"].try_number > 0 =>
              \A u \in UpstreamTasks : Final(TaskState(u)))
    /\ [](TaskState("cleanup_temp_files") \in {"none", "success"})

\* Cleanup succeeded at its first try although validation failed, the rest
\* never ran and a file could not be removed.
C28_Witness ==
    /\ TaskState("validate_data_quality") = "failed"
    /\ \A u \in UpstreamTasks \ {"validate_data_quality"} : TaskState(u) = "upstream_failed"
    /\ task_instances["cleanup_temp_files"] = [state |-> "success", try_number |-> 1]
    /\ dag_last = [task_id |-> "cleanup_temp_files", outcome |-> "returned", fault |-> "remove"]

====
